---- MODULE Spec2Model ----
(***************************************************************************)
(* A model of task-master: the Task State Store (src/src/taskManager.js),  *)
(* the resume operation of the orchestrator (src/src/server.js) and the    *)
(* requirements extractor with its classifiers                             *)
(* (src/src/projectAnalyzer.js).                                           *)
(*                                                                         *)
(* The state file is a text, and the Store reads and rewrites it with      *)
(* regular expressions. The model keeps the file as the sequence of its    *)
(* lexical tokens, in order: a token is a string, and the tokens of a      *)
(* file, concatenated, are the file. The literals the regular expressions  *)
(* of the Store look for ("- [", the marker " " or "x", "] ", the line     *)
(* break, "Last Updated: ", "Status: ", "# ", " - Project Plan") are       *)
(* tokens of their own and occur nowhere inside another token, so a scan   *)
(* of the tokens from left to right finds what the regular expression      *)
(* finds in the characters. A title is the sequence of its words and of    *)
(* the spaces between them. Each regular expression is an operator that    *)
(* scans as the JavaScript engine does: leftmost match, greedy or lazy     *)
(* quantifier, "." stopping at a line break, "$" without the m flag        *)
(* meaning the end of the input.                                           *)
(*                                                                         *)
(* The texts of the extractor and of the classifiers are short, and are    *)
(* TLA+ strings handled character by character.                            *)
(***************************************************************************)
EXTENDS Integers, Sequences, FiniteSets, TLC

VARIABLES
  exists,    \* whether <projectRoot>/TASK.mdc exists
  content,   \* its content, a sequence of tokens (empty while it does not exist)
  now,       \* the wall clock, in seconds
  last,      \* the last createTaskFile / updateTaskStatus call and what it returned
  result,    \* what the last getCurrentStatus / resumeProject since then returned
  input,     \* the text handed to the extractor or to the priority classifier
  output,    \* what it returned
  calls      \* the calls of updateTaskStatus under way at the same time

vars == <<exists, content, now, last, result, input, output, calls>>

-----------------------------------------------------------------------------
(* Bounds of the model *)

\* The clock runs from 0 to MaxClock seconds.
MaxClock == 1
\* createTaskFile is called with at most MaxTasks tasks.
MaxTasks == 2
\* A requirements text has at most MaxLines lines.
MaxLines == 3
\* A text handed to determineTaskPriority has at most MaxPhrases phrases.
MaxPhrases == 2

-----------------------------------------------------------------------------
(* Texts: the operators work on strings and on sequences of tokens alike *)

Min(S) == CHOOSE x \in S : \A y \in S : x <= y

\* The elements of a set of numbers, in ascending order
RECURSIVE Ascending(_)
Ascending(S) == IF S = {} THEN <<>> ELSE <<Min(S)>> \o Ascending(S \ {Min(S)})

\* Whether pat occurs in s exactly at index i.
MatchAt(s, pat, i) ==
  /\ i >= 1
  /\ i + Len(pat) - 1 <= Len(s)
  /\ SubSeq(s, i, i + Len(pat) - 1) = pat

\* The least index >= i at which pat occurs in s, 0 when there is none
\* (String.prototype.indexOf, 1-based).
IndexOf(s, pat, i) ==
  LET hits == { j \in i..(Len(s) - Len(pat) + 1) : SubSeq(s, j, j + Len(pat) - 1) = pat }
  IN IF hits = {} THEN 0 ELSE Min(hits)

\* String.prototype.includes
Includes(s, pat) == \E j \in 1..(Len(s) - Len(pat) + 1) : SubSeq(s, j, j + Len(pat) - 1) = pat

\* In a sequence of tokens, the index of the first line break at or after i,
\* Len(s) + 1 when there is none: where a "." of a regular expression without
\* the s flag stops.
EndOfLine(s, i) ==
  LET e == IndexOf(s, <<"\n">>, i) IN IF e = 0 THEN Len(s) + 1 ELSE e

\* Array.prototype.join("\n") of lines that are sequences of tokens
RECURSIVE JoinLines(_)
JoinLines(ls) ==
  IF ls = <<>> THEN <<>>
  ELSE IF Len(ls) = 1 THEN ls[1]
  ELSE ls[1] \o <<"\n">> \o JoinLines(Tail(ls))

\* The string a sequence of tokens stands for
RECURSIVE Text(_)
Text(tokens) == IF tokens = <<>> THEN "" ELSE tokens[1] \o Text(Tail(tokens))

\* new Date().toISOString().replace('T', ' ').substring(0, 19) at second t
Timestamp(t) ==
  "2026-11-01 09:00:" \o (IF t < 10 THEN "0" ELSE "") \o ToString(t)

-----------------------------------------------------------------------------
(* TaskManager._formatTasks *)

PriorityOrder == <<"HIGH", "MEDIUM", "LOW">>

\* One line `  - [ ] ${subtask}` for each subtask
RECURSIVE SubtaskLines(_)
SubtaskLines(subtasks) ==
  IF subtasks = <<>> THEN <<>>
  ELSE << <<"  ", "- [", " ", "] ">> \o subtasks[1] >> \o SubtaskLines(Tail(subtasks))

\* The lines of one task: `- [ ] ${task.title}`, `  - ${task.description}`
\* when it has a description, and its subtasks' lines.
TaskLines(task) ==
  << <<"- [", " ", "] ">> \o task.title >>
  \o (IF task.description # <<>> THEN << <<"  ", "- ">> \o task.description >> ELSE <<>>)
  \o SubtaskLines(task.subtasks)

RECURSIVE GroupLines(_)
GroupLines(group) ==
  IF group = <<>> THEN <<>>
  ELSE TaskLines(group[1]) \o GroupLines(Tail(group))

\* priorityGroups[priority]: the tasks of that priority, in input order
\* (a task without a priority counts as MEDIUM)
RECURSIVE PriorityGroup(_, _)
PriorityGroup(tasks, priority) ==
  IF tasks = <<>> THEN <<>>
  ELSE (IF (IF tasks[1].priority = "" THEN "MEDIUM" ELSE tasks[1].priority) = priority
        THEN <<tasks[1]>> ELSE <<>>)
       \o PriorityGroup(Tail(tasks), priority)

\* The lines of one tier without the test of priorityGroups[priority]: the
\* heading and the empty line are there for a tier without a task too.
SectionLinesAlwaysHeaded(tasks, priority) ==
  << <<"##", "# ", priority, " Priority Tasks">> >>
    \o GroupLines(PriorityGroup(tasks, priority)) \o << <<>> >>

\* The lines of one tier: `### ${priority} Priority Tasks`, its tasks, an
\* empty line; nothing when the tier has no task.
SectionLines(tasks, priority) ==
  LET group == PriorityGroup(tasks, priority)
  IN IF group = <<>> THEN <<>>
     ELSE << <<"##", "# ", priority, " Priority Tasks">> >> \o GroupLines(group) \o << <<>> >>

FormatTasks(tasks) ==
  JoinLines(SectionLines(tasks, PriorityOrder[1])
            \o SectionLines(tasks, PriorityOrder[2])
            \o SectionLines(tasks, PriorityOrder[3]))

-----------------------------------------------------------------------------
(* TaskManager.createTaskFile *)

\* nextSteps.map(step => `- ${step}`)
RECURSIVE StepLines(_)
StepLines(nextSteps) ==
  IF nextSteps = <<>> THEN <<>>
  ELSE << <<"- ">> \o nextSteps[1] >> \o StepLines(Tail(nextSteps))

\* The code fence of the template. A TLA+ string cannot hold a backquote, so
\* the token of three backquotes is written with apostrophes; no regular
\* expression of the source looks for it.
Fence == "'''"

\* The template; started and updated are the values of its two new Date() calls.
Template(projectName, projectDescription, tasks, environmentSetup, nextSteps, notes, started, updated) ==
  <<"# ">> \o projectName \o <<" - Project Plan", "\n">>
  \o <<"\n">>
  \o <<"#", "# ", "Project Overview", "\n">>
  \o projectDescription \o <<"\n">>
  \o <<"\n">>
  \o <<"#", "# ", "Environment Setup", "\n">>
  \o <<Fence, "bash", "\n">>
  \o environmentSetup \o <<"\n">>
  \o <<Fence, "\n">>
  \o <<"\n">>
  \o <<"#", "# ", "Implementation Tasks", "\n">>
  \o <<"\n">>
  \o FormatTasks(tasks) \o <<"\n">>
  \o <<"\n">>
  \o <<"#", "# ", "Progress Tracking", "\n">>
  \o <<"- ", "Started: ", Timestamp(started), "\n">>
  \o <<"- ", "Last Updated: ", Timestamp(updated), "\n">>
  \o <<"- ", "Status: ", "IN PROGRESS", "\n">>
  \o <<"\n">>
  \o <<"#", "# ", "Next Steps", "\n">>
  \o JoinLines(StepLines(nextSteps)) \o <<"\n">>
  \o <<"\n">>
  \o <<"#", "# ", "Notes", "\n">>
  \o notes

-----------------------------------------------------------------------------
(* TaskManager.updateTaskStatus *)

\* Where new RegExp(`- \\[([ x])\\] ${escapedTitle}`) first matches s at or
\* after index i, 0 when it does not. escapedTitle is taskTitle with every
\* special character of a regular expression escaped, so the title matches
\* as a literal; the pattern has no anchor at either end.
TaskPatternIndex(s, taskTitle, i) ==
  LET hits == { j \in i..(Len(s) - 2 - Len(taskTitle)) :
                  /\ s[j] = "- ["
                  /\ s[j + 1] \in {" ", "x"}
                  /\ s[j + 2] = "] "
                  /\ SubSeq(s, j + 3, j + 2 + Len(taskTitle)) = taskTitle }
  IN IF hits = {} THEN 0 ELSE Min(hits)

\* What String.prototype.replace puts for the part of a replacement string
\* that is taskTitle: "$$" stands for "$", "$&" for the text matched and
\* "$1" for the first group of the match, here the marker found; any other
\* token stands for itself. (The titles of the model hold no other "$".)
RECURSIVE Replacement(_, _, _)
Replacement(taskTitle, matched, group1) ==
  IF taskTitle = <<>> THEN <<>>
  ELSE (IF taskTitle[1] = "$$" THEN <<"$">>
        ELSE IF taskTitle[1] = "$&" THEN matched
        ELSE IF taskTitle[1] = "$1" THEN <<group1>>
        ELSE <<taskTitle[1]>>)
       \o Replacement(Tail(taskTitle), matched, group1)

\* content.replace(pattern, `- [${newStatus}] ${taskTitle}`): the first match
\* alone is replaced (the pattern has no g flag), by the replacement string
\* with its "$" patterns expanded.
ReplaceTaskStatus(s, taskTitle, completed) ==
  LET i == TaskPatternIndex(s, taskTitle, 1)
      newStatus == IF completed THEN "x" ELSE " "
  IN IF i = 0 THEN s
     ELSE SubSeq(s, 1, i - 1) \o <<"- [", newStatus, "] ">>
          \o Replacement(taskTitle, SubSeq(s, i, i + 2 + Len(taskTitle)), s[i + 1])
          \o SubSeq(s, i + 3 + Len(taskTitle), Len(s))

\* newContent.replace(/Last Updated: .*/, `Last Updated: ${currentDate}`)
ReplaceLastUpdated(s, currentDate) ==
  LET i == IndexOf(s, <<"Last Updated: ">>, 1)
  IN IF i = 0 THEN s
     ELSE SubSeq(s, 1, i - 1) \o <<"Last Updated: ", currentDate>>
          \o SubSeq(s, EndOfLine(s, i + 1), Len(s))

\* What updateTaskStatus does to a state file with content s at second t:
\* the content it leaves, whether it wrote it, and the value it returns.
UpdatedFile(s, taskTitle, completed, t) ==
  LET newContent == ReplaceTaskStatus(s, taskTitle, completed)
      updatedContent == ReplaceLastUpdated(newContent, Timestamp(t))
  IN IF updatedContent = s
     THEN [content |-> s, ret |-> FALSE]
     ELSE [content |-> updatedContent, ret |-> TRUE]

-----------------------------------------------------------------------------
(* TaskManager.getCurrentStatus *)

WhiteSpace == {" ", "  ", "\n", "\t", "\r"}

\* String.prototype.trim, on a sequence of tokens: the tokens of white space
\* at either end go.
TrimTokens(s) ==
  LET inked == { j \in 1..Len(s) : s[j] \notin WhiteSpace }
  IN IF inked = {} THEN <<>>
     ELSE SubSeq(s, Min(inked), CHOOSE j \in inked : \A k \in inked : k <= j)

\* Where /- \[([ x])\] / first matches s at or after index i, 0 when nowhere.
CheckboxIndex(s, i) ==
  LET hits == { j \in i..(Len(s) - 2) :
                  s[j] = "- [" /\ s[j + 1] \in {" ", "x"} /\ s[j + 2] = "] " }
  IN IF hits = {} THEN 0 ELSE Min(hits)

\* The matches of taskPattern = /- \[([ x])\] (.*?)(?=\n- \[|$)/g from index
\* pos on, as task records. At a checkbox found at i, the lazy (.*?) grows
\* over the rest of the line only ("." matches no line break), and the
\* lookahead can hold only at the end of that line, e: when the input ends
\* there ("$" has no m flag) or when "\n- [" starts there. Otherwise the
\* match fails at i and the search goes on from i + 1. After a match the
\* next search starts where the match ended, e.
RECURSIVE TaskMatches(_, _)
TaskMatches(s, pos) ==
  LET i == CheckboxIndex(s, pos)
      e == EndOfLine(s, i + 3)
  IN IF i = 0 THEN <<>>
     ELSE IF e = Len(s) + 1 \/ MatchAt(s, <<"\n", "- [">>, e)
     THEN <<[title |-> TrimTokens(SubSeq(s, i + 3, e - 1)), completed |-> s[i + 1] = "x"]>>
          \o TaskMatches(s, e)
     ELSE TaskMatches(s, i + 1)

\* content.match(/<label>(.*)/): the rest of the line after the first label,
\* 'Unknown' when the label is nowhere.
FieldAfter(s, label) ==
  LET i == IndexOf(s, <<label>>, 1)
  IN IF i = 0 THEN <<"Unknown">> ELSE SubSeq(s, i + 1, EndOfLine(s, i + 1) - 1)

\* content.match(/# (.*) - Project Plan/): at the first "# " whose line goes
\* on with " - Project Plan", the greedy (.*) runs to the last " - Project
\* Plan" of the line; 'Unknown' when there is no such line.
ProjectName(s) ==
  LET Suffixes(i) == { j \in (i + 1)..(EndOfLine(s, i + 1) - 1) : s[j] = " - Project Plan" }
      starts == { i \in 1..Len(s) : s[i] = "# " /\ Suffixes(i) # {} }
      i0 == Min(starts)
  IN IF starts = {} THEN <<"Unknown">>
     ELSE SubSeq(s, i0 + 1, (CHOOSE j \in Suffixes(i0) : \A k \in Suffixes(i0) : k <= j) - 1)

\* tasks.filter(task => task.completed === completed)
RECURSIVE TasksWhere(_, _)
TasksWhere(tasks, completed) ==
  IF tasks = <<>> THEN <<>>
  ELSE (IF tasks[1].completed = completed THEN <<tasks[1]>> ELSE <<>>)
       \o TasksWhere(Tail(tasks), completed)

\* getCurrentStatus on a project root whose state file exists or not
GetCurrentStatus(fileExists, s) ==
  IF ~fileExists THEN [error |-> "TASK.mdc file not found"]
  ELSE LET tasks == TaskMatches(s, 1)
       IN [project_name |-> ProjectName(s),
           status |-> FieldAfter(s, "Status: "),
           last_updated |-> FieldAfter(s, "Last Updated: "),
           tasks |-> tasks,
           completed_tasks |-> Len(TasksWhere(tasks, TRUE)),
           total_tasks |-> Len(tasks)]

IsError(status) == "error" \in DOMAIN status

-----------------------------------------------------------------------------
(* resumeProject (src/src/server.js) *)

UpperCase == "ABCDEFGHIJKLMNOPQRSTUVWXYZ"
LowerCase == "abcdefghijklmnopqrstuvwxyz"

LowerChar(c) ==
  LET i == IndexOf(UpperCase, c, 1) IN IF i = 0 THEN c ELSE SubSeq(LowerCase, i, i)

\* String.prototype.toLowerCase
RECURSIVE ToLowerCase(_)
ToLowerCase(s) ==
  IF Len(s) = 0 THEN ""
  ELSE IF Len(s) = 1 THEN LowerChar(s)
  ELSE ToLowerCase(SubSeq(s, 1, Len(s) \div 2))
       \o ToLowerCase(SubSeq(s, Len(s) \div 2 + 1, Len(s)))

\* Whether the text includes one of the keywords
IncludesAny(text, keywords) == \E k \in keywords : Includes(text, k)

ResumeHighWords == {"high", "critical", "important", "database", "authentication", "core", "foundation", "architecture", "security"}
ResumeLowWords == {"low", "optional", "if time permits"}

\* The determineTaskPriority that resumeProject defines for itself, on the
\* text of a title
ResumePriority(title) ==
  LET titleLower == ToLowerCase(Text(title))
  IN IF IncludesAny(titleLower, ResumeHighWords) THEN "HIGH"
     ELSE IF IncludesAny(titleLower, ResumeLowWords) THEN "LOW"
     ELSE "MEDIUM"

\* incompleteTasks.filter(task => determineTaskPriority(task.title) === priority)
RECURSIVE TasksOfResumePriority(_, _)
TasksOfResumePriority(tasks, priority) ==
  IF tasks = <<>> THEN <<>>
  ELSE (IF ResumePriority(tasks[1].title) = priority THEN <<tasks[1]>> ELSE <<>>)
       \o TasksOfResumePriority(Tail(tasks), priority)

\* nextTasks.slice(0, 3)
NextTasksLimit == 3

Slice(seq, n) == SubSeq(seq, 1, IF Len(seq) < n THEN Len(seq) ELSE n)

\* The tasks resumeProject suggests out of the incomplete ones
NextTasks(incompleteTasks) ==
  LET highPriorityTasks == TasksOfResumePriority(incompleteTasks, "HIGH")
      mediumPriorityTasks == TasksOfResumePriority(incompleteTasks, "MEDIUM")
      lowPriorityTasks == TasksOfResumePriority(incompleteTasks, "LOW")
      nextTasks == IF Len(highPriorityTasks) > 0 THEN highPriorityTasks
                   ELSE mediumPriorityTasks
  IN Slice(IF Len(nextTasks) = 0 THEN lowPriorityTasks ELSE nextTasks, NextTasksLimit)

\* What resumeProject returns on the status getCurrentStatus gave it
Resumed(status) ==
  IF IsError(status) THEN [success |-> FALSE, message |-> status.error]
  ELSE [success |-> TRUE,
        project_name |-> status.project_name,
        status |-> status.status,
        progress |-> ToString(status.completed_tasks) \o "/"
                     \o ToString(status.total_tasks) \o " tasks completed",
        next_tasks |-> NextTasks(TasksWhere(status.tasks, FALSE)),
        message |-> "Project resumed successfully"]

ResumeProject(fileExists, s) == Resumed(GetCurrentStatus(fileExists, s))

-----------------------------------------------------------------------------
(* projectAnalyzer.js: texts are strings *)

CharAt(s, i) == SubSeq(s, i, i)

SpaceChars == {" ", "\n", "\t", "\r"}
Digits == {"0", "1", "2", "3", "4", "5", "6", "7", "8", "9"}

\* The least index in i..Len(s) whose character is not in chars, Len(s) + 1
\* when there is none: where a greedy \s*, \d+ or #+ that starts at i ends.
SkipChars(s, chars, i) ==
  LET stops == { j \in i..Len(s) : CharAt(s, j) \notin chars }
  IN IF stops = {} THEN Len(s) + 1 ELSE Min(stops)

\* String.prototype.trim
Trim(s) ==
  LET inked == { j \in 1..Len(s) : CharAt(s, j) \notin SpaceChars }
  IN IF inked = {} THEN ""
     ELSE SubSeq(s, Min(inked), CHOOSE j \in inked : \A k \in inked : k <= j)

\* In a string, the index of the first line break at or after i, Len(s) + 1
\* when there is none.
LineEnd(s, i) ==
  LET e == IndexOf(s, "\n", i) IN IF e = 0 THEN Len(s) + 1 ELSE e

(* determineTaskPriority *)

UrgencyWords == {"urgent", "critical", "important", "high priority"}
DeferWords == {"low priority", "optional", "if time permits"}
FoundationWords == {"database", "authentication", "core", "foundation", "architecture", "security"}
SurfaceWords == {"ui", "ux", "design", "style", "appearance", "documentation"}

\* determineTaskPriority with the test of the words that defer a task ahead of
\* the test of the words of urgency
DetermineTaskPriorityDeferFirst(text) ==
  LET textLower == ToLowerCase(text)
  IN IF IncludesAny(textLower, DeferWords) THEN "LOW"
     ELSE IF IncludesAny(textLower, UrgencyWords) THEN "HIGH"
     ELSE IF IncludesAny(textLower, FoundationWords) THEN "HIGH"
     ELSE IF IncludesAny(textLower, SurfaceWords) THEN "MEDIUM"
     ELSE "MEDIUM"

DetermineTaskPriority(text) ==
  LET textLower == ToLowerCase(text)
  IN IF IncludesAny(textLower, UrgencyWords) THEN "HIGH"
     ELSE IF IncludesAny(textLower, DeferWords) THEN "LOW"
     ELSE IF IncludesAny(textLower, FoundationWords) THEN "HIGH"
     ELSE IF IncludesAny(textLower, SurfaceWords) THEN "MEDIUM"
     ELSE "MEDIUM"

(* inferProjectType *)

WebWords == {"web", "website", "frontend", "backend", "fullstack", "html", "css", "javascript"}
MobileWords == {"mobile", "app", "ios", "android", "flutter", "react native"}
ApiWords == {"api", "rest", "graphql", "microservice"}
DataWords == {"data", "analysis", "analytics", "machine learning", "ml", "ai"}

InferProjectType(requirements) ==
  LET requirementsLower == ToLowerCase(requirements)
  IN IF IncludesAny(requirementsLower, WebWords) THEN "web"
     ELSE IF IncludesAny(requirementsLower, MobileWords) THEN "mobile"
     ELSE IF IncludesAny(requirementsLower, ApiWords) THEN "api"
     ELSE IF IncludesAny(requirementsLower, DataWords) THEN "data"
     ELSE "generic"

(* getDefaultTasks *)

Task(title, priority, description) ==
  [title |-> title, priority |-> priority, description |-> description]

GetDefaultTasks(projectType) ==
  IF projectType = "web" THEN
    << Task("Setup project structure", "HIGH", "Initialize the web project structure and configuration files"),
       Task("Implement database models", "HIGH", "Design and implement database schema and models"),
       Task("Create authentication system", "HIGH", "Implement user authentication and authorization"),
       Task("Develop API endpoints", "MEDIUM", "Create backend API endpoints for data access"),
       Task("Build frontend UI", "MEDIUM", "Develop the user interface components"),
       Task("Implement business logic", "MEDIUM", "Develop core business logic and functionality"),
       Task("Write tests", "MEDIUM", "Create unit and integration tests"),
       Task("Setup deployment pipeline", "LOW", "Configure CI/CD and deployment process") >>
  ELSE IF projectType = "mobile" THEN
    << Task("Setup project structure", "HIGH", "Initialize the mobile app project structure"),
       Task("Design app architecture", "HIGH", "Define the app architecture and navigation flow"),
       Task("Implement authentication", "HIGH", "Create user authentication and session management"),
       Task("Develop core screens", "MEDIUM", "Build the main screens and functionality"),
       Task("Implement API integration", "MEDIUM", "Connect to backend services and APIs"),
       Task("Add offline support", "LOW", "Implement data caching and offline functionality"),
       Task("Write tests", "MEDIUM", "Create unit and UI tests"),
       Task("Prepare for app store submission", "LOW", "Configure app for distribution") >>
  ELSE IF projectType = "api" THEN
    << Task("Define API specifications", "HIGH", "Create OpenAPI/Swagger specifications"),
       Task("Setup project structure", "HIGH", "Initialize the API project structure"),
       Task("Implement database models", "HIGH", "Design and implement data models"),
       Task("Create authentication middleware", "HIGH", "Implement API authentication and authorization"),
       Task("Develop API endpoints", "MEDIUM", "Implement the API endpoints and controllers"),
       Task("Add validation and error handling", "MEDIUM", "Implement input validation and error responses"),
       Task("Write tests", "MEDIUM", "Create unit and integration tests"),
       Task("Setup monitoring and logging", "LOW", "Configure API monitoring and logging") >>
  ELSE IF projectType = "data" THEN
    << Task("Setup data processing environment", "HIGH", "Configure data processing tools and libraries"),
       Task("Implement data collection", "HIGH", "Create data collection and ingestion processes"),
       Task("Develop data cleaning pipeline", "HIGH", "Implement data cleaning and preprocessing"),
       Task("Create data models", "MEDIUM", "Develop analytical or machine learning models"),
       Task("Implement data visualization", "MEDIUM", "Create visualizations and dashboards"),
       Task("Setup data storage", "MEDIUM", "Configure databases or data warehouses"),
       Task("Write tests", "MEDIUM", "Create unit tests for data processing"),
       Task("Document data dictionary", "LOW", "Create documentation for data schemas and models") >>
  ELSE
    << Task("Setup project structure", "HIGH", "Initialize the project structure and configuration"),
       Task("Define core requirements", "HIGH", "Clarify and document detailed requirements"),
       Task("Implement core functionality", "HIGH", "Develop the main functionality of the project"),
       Task("Create documentation", "MEDIUM", "Write user and developer documentation"),
       Task("Implement testing", "MEDIUM", "Create tests for the project"),
       Task("Setup deployment process", "LOW", "Configure deployment and distribution") >>

(* generateTasks *)

\* Where one of the terminators \n\n, \n#, \n\*\* or $ of a block first
\* matches at or after i ("$" has no m flag: the end of the input).
BlockEnd(s, i) ==
  LET ends == { k \in i..Len(s) : \/ MatchAt(s, "\n\n", k)
                                  \/ MatchAt(s, "\n#", k)
                                  \/ MatchAt(s, "\n**", k) }
  IN IF ends = {} THEN Len(s) + 1 ELSE Min(ends)

\* requirements.match(/Tasks:?\s*(.*?)(?:\n\n|\n#|\n\*\*|$)/is): the match
\* starts at the first "tasks" in any letter case (flag i); ":" is optional;
\* the greedy \s* takes every white space that follows, line breaks too; the
\* lazy (.*?), whose "." matches line breaks (flag s), stops at the first
\* terminator, which the end of the input always is. Group 1, or no match.
TaskSectionMatch(requirements) ==
  LET i == IndexOf(ToLowerCase(requirements), "tasks", 1)
      afterColon == IF MatchAt(requirements, ":", i + 5) THEN i + 6 ELSE i + 5
      start == SkipChars(requirements, SpaceChars, afterColon)
  IN IF i = 0 THEN [matched |-> FALSE, group1 |-> ""]
     ELSE [matched |-> TRUE,
           group1 |-> SubSeq(requirements, start, BlockEnd(requirements, start) - 1)]

\* Where (?:[-*]|\d+\.) matches at index j of s: the index after the marker,
\* 0 when it does not match there.
MarkerEnd(s, j) ==
  LET d == SkipChars(s, Digits, j)
  IN IF CharAt(s, j) \in {"-", "*"} THEN j + 1
     ELSE IF CharAt(s, j) \in Digits /\ MatchAt(s, ".", d) THEN d + 1
     ELSE 0

\* Group 1, trimmed, of every match of /(?:[-*]|\d+\.)\s*(.*?)(?:\n|$)/g in
\* taskSection from index pos on. After the leftmost marker the greedy \s*
\* takes the white space that follows, line breaks too; the lazy (.*?) runs
\* to the end of the line it is then on; the match takes that line break.
RECURSIVE BulletTitles(_, _)
BulletTitles(taskSection, pos) ==
  LET markers == { j \in pos..Len(taskSection) : MarkerEnd(taskSection, j) # 0 }
      start == SkipChars(taskSection, SpaceChars, MarkerEnd(taskSection, Min(markers)))
      e == LineEnd(taskSection, start)
  IN IF markers = {} THEN <<>>
     ELSE <<Trim(SubSeq(taskSection, start, e - 1))>> \o BulletTitles(taskSection, e + 1)

\* Group 1, trimmed, of every match of /#+\s*(.*?)(?:\n|$)/g in requirements
\* from index pos on.
RECURSIVE SectionTitles(_, _)
SectionTitles(requirements, pos) ==
  LET i == IndexOf(requirements, "#", pos)
      start == SkipChars(requirements, SpaceChars, SkipChars(requirements, {"#"}, i))
      e == LineEnd(requirements, start)
  IN IF i = 0 THEN <<>>
     ELSE <<Trim(SubSeq(requirements, start, e - 1))>> \o SectionTitles(requirements, e + 1)

\* The tasks of the explicit list: one for each title that is not empty
RECURSIVE ExplicitTasks(_)
ExplicitTasks(titles) ==
  IF titles = <<>> THEN <<>>
  ELSE (IF titles[1] # "" THEN <<Task(titles[1], DetermineTaskPriority(titles[1]), "")>> ELSE <<>>)
       \o ExplicitTasks(Tail(titles))

ReservedSections == {"project name", "project description", "environment setup", "tasks"}

\* The tasks inferred from the section titles
RECURSIVE InferredTasks(_)
InferredTasks(titles) ==
  IF titles = <<>> THEN <<>>
  ELSE (IF ToLowerCase(titles[1]) \notin ReservedSections
        THEN <<Task("Implement " \o titles[1], DetermineTaskPriority(titles[1]),
                    "Based on the " \o titles[1] \o " section in requirements")>>
        ELSE <<>>)
       \o InferredTasks(Tail(titles))

\* generateTasks without the two tests of tasks.length === 0: the inferred
\* tasks are added to the explicit ones.
GenerateTasksMixed(requirements) ==
  LET taskSectionMatch == TaskSectionMatch(requirements)
      explicit == IF taskSectionMatch.matched
                  THEN ExplicitTasks(BulletTitles(taskSectionMatch.group1, 1))
                  ELSE <<>>
      tasks == explicit \o InferredTasks(SectionTitles(requirements, 1))
  IN IF Len(tasks) # 0 THEN tasks
     ELSE GetDefaultTasks(InferProjectType(requirements))

GenerateTasks(requirements) ==
  LET taskSectionMatch == TaskSectionMatch(requirements)
      explicit == IF taskSectionMatch.matched
                  THEN ExplicitTasks(BulletTitles(taskSectionMatch.group1, 1))
                  ELSE <<>>
      inferred == InferredTasks(SectionTitles(requirements, 1))
  IN IF Len(explicit) # 0 THEN explicit
     ELSE IF Len(inferred) # 0 THEN inferred
     ELSE GetDefaultTasks(InferProjectType(requirements))

-----------------------------------------------------------------------------
(* The calls of the Store and of resumeProject *)

\* The tasks createTaskFile is called with: one title is the beginning of
\* another; every priority; two tasks of one priority; with and without a
\* description; with and without a subtask.
TaskPool ==
  { [title |-> <<"Polish">>, priority |-> "LOW", description |-> <<>>, subtasks |-> << <<"Draft">> >>],
    [title |-> <<"Polish", " ", "UI">>, priority |-> "MEDIUM", description |-> <<>>, subtasks |-> <<>>],
    [title |-> <<"Setup", " ", "database", " ", "layer">>, priority |-> "MEDIUM", description |-> <<>>, subtasks |-> <<>>],
    [title |-> <<"Setup", " ", "database", " ", "layer">>, priority |-> "HIGH", description |-> <<"Schema", " ", "first">>, subtasks |-> <<>>] }

DistinctTitles(tasks) ==
  \A i, j \in DOMAIN tasks : i # j => tasks[i].title # tasks[j].title

TaskLists ==
  UNION { { tasks \in [1..n -> TaskPool] : DistinctTitles(tasks) } : n \in 0..MaxTasks }

\* The titles updateTaskStatus is called with: the titles of the pool, a
\* subtask's, and one that no state file holds.
UpdateTitles == { t.title : t \in TaskPool } \cup { <<"Draft">>, <<"Deploy">> }

\* The next steps initializeProject passes to createTaskFile
NextSteps == << <<"Review and refine tasks">>, <<"Set up development environment">>, <<"Begin implementation of high priority tasks">> >>

NoCall == [op |-> "none", title |-> <<>>, completed |-> FALSE, ret |-> FALSE, existed |-> FALSE, before |-> <<>>, tasks |-> <<>>]
NoResult == [op |-> "none"]
NoOutput == [op |-> "none"]

\* The callers that may have a call of updateTaskStatus under way
Callers == {1, 2}
IdleCall == [pc |-> "idle", title |-> <<>>, completed |-> FALSE, seen |-> <<>>, pending |-> <<>>, ret |-> FALSE]
NoCalls == [of |-> [c \in Callers |-> IdleCall], log |-> <<>>]

Init ==
  /\ exists = FALSE
  /\ content = <<>>
  /\ now = 0
  /\ last = NoCall
  /\ result = NoResult
  /\ input = ""
  /\ output = NoOutput
  /\ calls = NoCalls

\* The clock advances by a second.
Tick ==
  /\ now < MaxClock
  /\ now' = now + 1
  /\ UNCHANGED <<exists, content, last, result, input, output, calls>>

\* createTaskFile(projectName, projectDescription, tasks, environmentSetup,
\* nextSteps): the template reads the clock twice, and a second may pass
\* between the two readings; the file is written whether it exists or not.
CreateTaskFile(tasks) ==
  \E updated \in {now, now + 1} :
    /\ updated <= MaxClock
    /\ content' = Template(<<"Demo">>, <<"A demo">>, tasks, <<>>, NextSteps, <<>>, now, updated)
    /\ exists' = TRUE
    /\ now' = updated
    /\ last' = [NoCall EXCEPT !.op = "create", !.tasks = tasks, !.existed = exists]
    /\ result' = NoResult
    /\ UNCHANGED <<input, output, calls>>

\* updateTaskStatus(taskTitle, completed) with a call of fs.ensureFile in the
\* place of the test of fs.pathExists
UpdateTaskStatusEnsuresFile(taskTitle, completed) ==
  LET updated == UpdatedFile(content, taskTitle, completed, now)
  IN /\ exists' = TRUE
     /\ content' = updated.content
     /\ last' = [NoCall EXCEPT !.op = "update", !.title = taskTitle, !.completed = completed, !.ret = updated.ret, !.existed = exists, !.before = content]
     /\ result' = NoResult
     /\ UNCHANGED <<now, input, output, calls>>

\* updateTaskStatus(taskTitle, completed): false when the file does not
\* exist; otherwise the file is written when the rewritten content differs.
UpdateTaskStatus(taskTitle, completed) ==
  LET updated == IF exists THEN UpdatedFile(content, taskTitle, completed, now)
                 ELSE [content |-> content, ret |-> FALSE]
  IN /\ content' = updated.content
     /\ last' = [NoCall EXCEPT !.op = "update", !.title = taskTitle, !.completed = completed, !.ret = updated.ret, !.existed = exists, !.before = content]
     /\ result' = NoResult
     /\ UNCHANGED <<exists, now, input, output, calls>>

\* getCurrentStatus()
ReadStatus ==
  /\ result' = [op |-> "status", value |-> GetCurrentStatus(exists, content)]
  /\ UNCHANGED <<exists, content, now, last, input, output, calls>>

\* resumeProject(projectRoot)
Resume ==
  /\ result' = [op |-> "resume", value |-> ResumeProject(exists, content)]
  /\ UNCHANGED <<exists, content, now, last, input, output, calls>>

Next ==
  \/ Tick
  \/ \E tasks \in TaskLists : CreateTaskFile(tasks)
  \/ \E taskTitle \in UpdateTitles, completed \in BOOLEAN : UpdateTaskStatus(taskTitle, completed)
  \/ ReadStatus
  \/ Resume

Spec == Init /\ [][Next]_vars

-----------------------------------------------------------------------------
(* The calls of the analyzer: generateTasks and determineTaskPriority are
   functions of their argument, each applied once to a text drawn at the
   start. *)

RECURSIVE Join(_, _)
Join(strings, separator) ==
  IF strings = <<>> THEN ""
  ELSE IF Len(strings) = 1 THEN strings[1]
  ELSE strings[1] \o separator \o Join(Tail(strings), separator)

\* The lines requirements are written with: the header of the task list, a
\* bullet, a numbered line, a bullet without text, an empty line, a heading,
\* a heading without text, bold text, and prose that holds a "#", a "-" or
\* the word "tasks".
LinePool ==
  { "Tasks:", "- Build login", "2. Fix urgent bug", "-", "", "# Goals", "#",
    "**Scope**", "Use C# for web", "A mobile app - fast", "List of tasks" }

Requirements ==
  { Join(lines, "\n") : lines \in UNION { [1..n -> LinePool] : n \in 0..MaxLines } }

\* The phrases task titles are written with: of each group of keywords, in
\* either letter case, and of none.
PhrasePool ==
  { "URGENT", "high priority", "Optional", "if time permits", "database",
    "Security", "UI", "documentation", "fix", "login" }

Titles ==
  { Join(phrases, " ") : phrases \in UNION { [1..n -> PhrasePool] : n \in 0..MaxPhrases } }

InitAnalyzer(inputs) ==
  /\ exists = FALSE
  /\ content = <<>>
  /\ now = 0
  /\ last = NoCall
  /\ result = NoResult
  /\ input \in inputs
  /\ output = NoOutput
  /\ calls = NoCalls

\* analyzeRequirements(requirements).tasks
Extract ==
  /\ output = NoOutput
  /\ output' = [op |-> "extract", tasks |-> GenerateTasks(input)]
  /\ UNCHANGED <<exists, content, now, last, result, input, calls>>

InitExtract == InitAnalyzer(Requirements)
NextExtract == Extract
SpecExtract == InitExtract /\ [][NextExtract]_vars

\* determineTaskPriority(text)
ClassifyPriority ==
  /\ output = NoOutput
  /\ output' = [op |-> "priority", priority |-> DetermineTaskPriority(input)]
  /\ UNCHANGED <<exists, content, now, last, result, input, calls>>

InitPriority == InitAnalyzer(Titles)
NextPriority == ClassifyPriority
SpecPriority == InitPriority /\ [][NextPriority]_vars

-----------------------------------------------------------------------------
(* Properties of the Store and of resumeProject, under Spec *)

\* A checkbox, "- [ ] " or "- [x] ", starts at index j of the state file s.
CheckboxAt(s, j) ==
  j + 2 <= Len(s) /\ s[j] = "- [" /\ s[j + 1] \in {" ", "x"} /\ s[j + 2] = "] "

\* The text that follows the checkbox at j, to the end of its line
LineTitle(s, j) == TrimTokens(SubSeq(s, j + 3, EndOfLine(s, j + 3) - 1))

\* The checkbox lines of the state file s, nested ones too, in file order
CheckboxLines(s) ==
  LET at == Ascending({ j \in 1..Len(s) : CheckboxAt(s, j) })
  IN [k \in 1..Len(at) |-> [title |-> LineTitle(s, at[k]), completed |-> s[at[k] + 1] = "x"]]

\* a is b with some of its elements left out.
IsSubSeq(a, b) ==
  \E f \in [1..Len(a) -> 1..Len(b)] :
    /\ \A k \in 1..Len(a) : a[k] = b[f[k]]
    /\ \A k, l \in 1..Len(a) : k < l => f[k] < f[l]

SetupDatabaseLayer == <<"Setup", " ", "database", " ", "layer">>
PolishUI == <<"Polish", " ", "UI">>

\* C1: on a state file that holds the unchecked line of a task t, two
\* successive calls updateTaskStatus(t, true) return true and then false, and
\* the second leaves the content of the file as the first left it, whatever
\* the time of each call.
C1_SecondUpdateChangesNothing ==
  [][ \A t \in UpdateTitles :
        ( /\ last.op = "update" /\ last.existed /\ last.title = t /\ last.completed
          /\ \E j \in 1..Len(last.before) :
               CheckboxAt(last.before, j) /\ last.before[j + 1] = " " /\ LineTitle(last.before, j) = t
          /\ UpdateTaskStatus(t, TRUE) )
        => (last.ret /\ ~last'.ret /\ content' = content) ]_vars

\* C2: getCurrentStatus right after createTaskFile(tasks), for tasks without
\* subtasks, returns one record for each task of the input, with its title
\* and completed = false, and total_tasks = the number of tasks of the input.
C2_StatusAfterCreate ==
  ( /\ result.op = "status" /\ last.op = "create"
    /\ \A i \in DOMAIN last.tasks : last.tasks[i].subtasks = <<>> )
  => /\ ~IsError(result.value)
     /\ result.value.total_tasks = Len(last.tasks)
     /\ Len(result.value.tasks) = Len(last.tasks)
     /\ \A i \in DOMAIN last.tasks :
          Cardinality({ k \in DOMAIN result.value.tasks :
                          result.value.tasks[k] = [title |-> last.tasks[i].title, completed |-> FALSE] }) = 1

\* C3: when the state file exists and holds no checkbox line for taskTitle
\* (not even one whose text begins with taskTitle), updateTaskStatus returns
\* false and writes nothing: the content, the Last Updated line included, is
\* after the call what it was before, whatever the time.
C3_NoLineNoWrite ==
  ( /\ last.op = "update" /\ last.existed
    /\ ~ \E j \in 1..Len(last.before) :
           CheckboxAt(last.before, j) /\ MatchAt(last.before, last.title, j + 3) )
  => (~last.ret /\ content = last.before)

\* C4: updateTaskStatus on a project root without a state file returns false
\* and creates no file: the state file is still absent afterwards.
C4_MissingFile ==
  (last.op = "update" /\ ~last.existed) => (~last.ret /\ ~exists /\ content = last.before)

\* A call of updateTaskStatus to complete a task has met a project root
\* without a state file.
C4_Witness ==
  last.op = "update" /\ ~last.existed /\ last.completed /\ last.title = PolishUI /\ ~exists

\* C5: getCurrentStatus returns one record for every checkbox line of the
\* state file, nested ones too, in file order; total_tasks is the number of
\* checkbox lines and completed_tasks the number of those marked [x].
C5_OneRecordPerCheckboxLine ==
  (result.op = "status" /\ exists)
  => LET lines == CheckboxLines(content)
     IN /\ ~IsError(result.value)
        /\ result.value.tasks = lines
        /\ result.value.total_tasks = Len(lines)
        /\ result.value.completed_tasks = Cardinality({ k \in DOMAIN lines : lines[k].completed })

\* C6: updateTaskStatus(taskTitle, completed) changes the checkbox of no line
\* whose title is not exactly taskTitle, also when that title begins with
\* taskTitle, whatever the order of the lines in the file.
C6_OnlyTheNamedLine ==
  (last.op = "update" /\ last.existed)
  => /\ Len(content) = Len(last.before)
     /\ \A j \in 1..Len(last.before) :
          (CheckboxAt(last.before, j) /\ LineTitle(last.before, j) # last.title)
          => content[j + 1] = last.before[j + 1]

\* C10: resumeProject on an existing plan returns as next_tasks only
\* unchecked lines of the plan, all of the first bucket that is not empty of
\* HIGH, MEDIUM, LOW (the priority taken from the title), in file order and
\* at most 3; when the unchecked lines are "Setup database layer" and
\* "Polish UI", next_tasks holds no other title than "Setup database layer".
C10_NextTasks ==
  (result.op = "resume" /\ exists)
  => LET IsOpen(t) == ~t.completed
         IsHigh(t) == ResumePriority(t.title) = "HIGH"
         IsMedium(t) == ResumePriority(t.title) = "MEDIUM"
         open == SelectSeq(CheckboxLines(content), IsOpen)
         bucket == IF SelectSeq(open, IsHigh) # <<>> THEN SelectSeq(open, IsHigh)
                   ELSE IF SelectSeq(open, IsMedium) # <<>> THEN SelectSeq(open, IsMedium)
                   ELSE open
     IN /\ result.value.success
        /\ Len(result.value.next_tasks) <= 3
        /\ IsSubSeq(result.value.next_tasks, bucket)
        /\ { open[k].title : k \in DOMAIN open } = {SetupDatabaseLayer, PolishUI}
           => \A k \in DOMAIN result.value.next_tasks :
                result.value.next_tasks[k].title = SetupDatabaseLayer

-----------------------------------------------------------------------------
(* Properties of the analyzer, under SpecExtract and SpecPriority *)

\* The lines of a text, from index i on
RECURSIVE LinesFrom(_, _)
LinesFrom(text, i) ==
  LET e == LineEnd(text, i)
  IN <<SubSeq(text, i, e - 1)>> \o (IF e > Len(text) THEN <<>> ELSE LinesFrom(text, e + 1))

\* text mentions one of the words, in any letter case.
Mentions(text, words) ==
  \E w \in words : \E i \in 1..(Len(text) + 1 - Len(w)) :
    ToLowerCase(SubSeq(text, i, i + Len(w) - 1)) = w

\* A line that introduces the task list
IsTasksHeader(line) == ToLowerCase(Trim(line)) = "tasks:"

\* A line that ends a block: an empty one, or one that starts with "#" or "**"
IsBlockEnd(line) == Trim(line) = "" \/ MatchAt(line, "#", 1) \/ MatchAt(line, "**", 1)

\* A line that starts with "-", "*" or a number and "."
IsBullet(line) == Trim(line) # "" /\ MarkerEnd(Trim(line), 1) # 0

\* The text of a bullet line, after its marker
BulletText(line) == Trim(SubSeq(Trim(line), MarkerEnd(Trim(line), 1), Len(Trim(line))))

\* The titles a text lists: the texts, where not empty, of the bullet lines
\* between its first Tasks: line and the next line that ends a block
ListedTitles(text) ==
  LET lines == LinesFrom(text, 1)
      headers == { k \in DOMAIN lines : IsTasksHeader(lines[k]) }
      ends == { k \in DOMAIN lines : k > Min(headers) /\ IsBlockEnd(lines[k]) }
      block == SubSeq(lines, Min(headers) + 1, IF ends = {} THEN Len(lines) ELSE Min(ends) - 1)
      HasText(line) == IsBullet(line) /\ BulletText(line) # ""
      bullets == SelectSeq(block, HasText)
  IN IF headers = {} THEN <<>>
     ELSE [k \in 1..Len(bullets) |-> BulletText(bullets[k])]

\* C7: for a text with a Tasks: block of n >= 1 bullet or numbered lines,
\* generateTasks returns n tasks, in the order of the bullets, each with the
\* trimmed text of its bullet as title, determineTaskPriority(title) as
\* priority and an empty description.
C7_ListedTasksExtracted ==
  (output.op = "extract" /\ Len(ListedTitles(input)) >= 1)
  => output.tasks = [k \in 1..Len(ListedTitles(input)) |->
                       Task(ListedTitles(input)[k], DetermineTaskPriority(ListedTitles(input)[k]), "")]

\* C8: for a text without a Tasks: block and without a heading line,
\* generateTasks returns the default tasks of the type of the project, which
\* is looked for in the order web, mobile, api, data and is generic when no
\* keyword of these is in the text.
C8_DefaultTasksWhenNothingListed ==
  ( /\ output.op = "extract"
    /\ \A k \in DOMAIN LinesFrom(input, 1) :
         /\ ~IsTasksHeader(LinesFrom(input, 1)[k])
         /\ ~MatchAt(Trim(LinesFrom(input, 1)[k]), "#", 1) )
  => output.tasks = GetDefaultTasks(IF Mentions(input, WebWords) THEN "web"
                                    ELSE IF Mentions(input, MobileWords) THEN "mobile"
                                    ELSE IF Mentions(input, ApiWords) THEN "api"
                                    ELSE IF Mentions(input, DataWords) THEN "data"
                                    ELSE "generic")

\* C9: determineTaskPriority gives every text one of HIGH, MEDIUM, LOW, by
\* the first group of keywords the text mentions: HIGH for a word of
\* urgency, also next to a word that defers; LOW for a word that defers,
\* also next to a word of the foundation; HIGH for a word of the foundation,
\* also next to a word of the surface; MEDIUM for any other text, the empty
\* one included.
C9_PriorityPrecedence ==
  output.op = "priority"
  => LET urgent == Mentions(input, UrgencyWords)
         deferred == Mentions(input, DeferWords)
         foundation == Mentions(input, FoundationWords)
     IN /\ output.priority \in {"HIGH", "MEDIUM", "LOW"}
        /\ urgent => output.priority = "HIGH"
        /\ (~urgent /\ deferred) => output.priority = "LOW"
        /\ (~urgent /\ ~deferred /\ foundation) => output.priority = "HIGH"
        /\ (~urgent /\ ~deferred /\ ~foundation) => output.priority = "MEDIUM"
        /\ input = "" => output.priority = "MEDIUM"

\* determineTaskPriority was applied to a text that mentions a word of
\* urgency, a word that defers and a word of the foundation.
C9_Witness ==
  /\ output.op = "priority"
  /\ Mentions(input, UrgencyWords)
  /\ Mentions(input, DeferWords)
  /\ output.priority = "HIGH"

-----------------------------------------------------------------------------
(* Properties of the document createTaskFile writes, under Spec *)

\* The heading of a tier, "### <priority> Priority Tasks", starts at index j.
TierHeadingAt(s, j) ==
  /\ j + 3 <= Len(s)
  /\ (j = 1 \/ s[j - 1] = "\n")
  /\ s[j] = "##" /\ s[j + 1] = "# " /\ s[j + 3] = " Priority Tasks"

\* The checkbox lines that start at column 0 between the indices from and
\* to of the state file s, in file order
TaskLinesBetween(s, from, to) ==
  LET at == Ascending({ j \in from..to : CheckboxAt(s, j) /\ (j = 1 \/ s[j - 1] = "\n") })
  IN [k \in 1..Len(at) |-> [title |-> LineTitle(s, at[k]), completed |-> s[at[k] + 1] = "x"]]

\* The tasks of a priority, in the order of the list, as unchecked lines
RECURSIVE UncheckedOf(_, _)
UncheckedOf(tasks, priority) ==
  IF tasks = <<>> THEN <<>>
  ELSE (IF tasks[1].priority = priority
        THEN <<[title |-> tasks[1].title, completed |-> FALSE]>> ELSE <<>>)
       \o UncheckedOf(Tail(tasks), priority)

\* C13: in the document createTaskFile writes, the sections of the tiers
\* come in the order HIGH, MEDIUM, LOW; a tier has a heading only when a task
\* of the input has its priority; under the heading of a tier stand, as
\* unchecked lines, the tasks of that priority and no others, each once, in
\* the order of the input.
C13_TiersInOrder ==
  last.op = "create"
  => LET headings == Ascending({ j \in 1..Len(content) : TierHeadingAt(content, j) })
         tiers == [k \in 1..Len(headings) |-> content[headings[k] + 2]]
         SectionEnd(k) == IF k = Len(headings) THEN Len(content) ELSE headings[k + 1] - 1
     IN /\ IsSubSeq(tiers, <<"HIGH", "MEDIUM", "LOW">>)
        /\ { tiers[k] : k \in DOMAIN tiers } = { last.tasks[i].priority : i \in DOMAIN last.tasks }
        /\ \A k \in DOMAIN headings :
             TaskLinesBetween(content, headings[k], SectionEnd(k)) = UncheckedOf(last.tasks, tiers[k])
        /\ Len(TaskLinesBetween(content, 1, Len(content))) = Len(last.tasks)

\* createTaskFile has written a list whose second task has a higher priority
\* than its first.
C13_Witness ==
  /\ last.op = "create" /\ exists
  /\ Len(last.tasks) = 2
  /\ last.tasks[1].priority = "LOW" /\ last.tasks[2].priority = "HIGH"

\* The value of the line "- <label><value>" of the state file s
ProgressField(s, label) ==
  LET i == IndexOf(s, <<"- ", label>>, 1) IN SubSeq(s, i + 2, EndOfLine(s, i) - 1)

\* C15: in every state file createTaskFile writes, the Started line and the
\* Last Updated line hold the same timestamp, whatever the clock does during
\* the call.
C15_StartedIsLastUpdated ==
  last.op = "create"
  => ProgressField(content, "Started: ") = ProgressField(content, "Last Updated: ")

-----------------------------------------------------------------------------
(* Properties of the strategies of generateTasks, under SpecExtract *)

\* The lines of the Tasks: block of a text: those between its first Tasks:
\* line and the next line that ends a block
TasksBlock(text) ==
  LET lines == LinesFrom(text, 1)
      headers == { k \in DOMAIN lines : IsTasksHeader(lines[k]) }
      ends == { k \in DOMAIN lines : k > Min(headers) /\ IsBlockEnd(lines[k]) }
  IN IF headers = {} THEN <<>>
     ELSE SubSeq(lines, Min(headers) + 1, IF ends = {} THEN Len(lines) ELSE Min(ends) - 1)

\* A task as the explicit list makes it
IsListed(task) == task.description = ""

\* A task as the inference from a heading makes it
IsInferred(task) ==
  /\ MatchAt(task.title, "Implement ", 1)
  /\ task.description = "Based on the " \o SubSeq(task.title, 11, Len(task.title))
                          \o " section in requirements"

\* One of the lists of default tasks
IsCatalog(tasks) ==
  tasks \in { GetDefaultTasks(type) : type \in {"web", "mobile", "api", "data", "generic"} }

\* C17: a Tasks: block whose lines are all bullet markers without text gives
\* no task: the tasks returned are inferred from the headings or are the
\* default ones, and none has an empty title or a bare bullet marker as title.
C17_EmptyBulletsGiveNoTask ==
  ( /\ output.op = "extract"
    /\ Len(TasksBlock(input)) >= 1
    /\ \A k \in DOMAIN TasksBlock(input) :
         IsBullet(TasksBlock(input)[k]) /\ BulletText(TasksBlock(input)[k]) = "" )
  => /\ \/ \A k \in DOMAIN output.tasks : IsInferred(output.tasks[k])
        \/ IsCatalog(output.tasks)
     /\ \A k \in DOMAIN output.tasks : output.tasks[k].title \notin {"", "-", "*"}

\* C18: generateTasks returns at least one task; every task has a title that
\* is not empty and a priority of HIGH, MEDIUM, LOW; the tasks are all of the
\* explicit list, or all inferred from headings, or a list of default tasks.
C18_OneStrategy ==
  output.op = "extract"
  => /\ Len(output.tasks) >= 1
     /\ \A k \in DOMAIN output.tasks :
          output.tasks[k].title # "" /\ output.tasks[k].priority \in {"HIGH", "MEDIUM", "LOW"}
     /\ \/ \A k \in DOMAIN output.tasks : IsListed(output.tasks[k])
        \/ \A k \in DOMAIN output.tasks : IsInferred(output.tasks[k])
        \/ IsCatalog(output.tasks)

\* generateTasks was applied to a text with a listed task and with a heading
\* that names a section, and returned the listed task.
C18_Witness ==
  /\ output.op = "extract"
  /\ input = "Tasks:\n- Build login\n# Goals"
  /\ \A k \in DOMAIN output.tasks : IsListed(output.tasks[k])

-----------------------------------------------------------------------------
(* Calls of updateTaskStatus under way at the same time. updateTaskStatus is
   an async function: it awaits the reading of the file, then computes the
   content to write without a pause, then awaits the writing. Between the
   two, another call may read or write the file; nothing locks it. *)

\* The plans two callers work on: the two tasks of the scenario
RacePlans ==
  { tasks \in TaskLists :
      Len(tasks) = 2 /\ { tasks[1].title, tasks[2].title } = {<<"Polish", " ", "UI">>, <<"Setup", " ", "database", " ", "layer">>} }

RaceTitles == { <<"Polish", " ", "UI">>, <<"Setup", " ", "database", " ", "layer">> }

\* The caller c calls updateTaskStatus(taskTitle, completed).
CallUpdate(c, taskTitle, completed) ==
  /\ calls.of[c].pc = "idle"
  /\ calls' = [calls EXCEPT !.of[c] = [IdleCall EXCEPT !.pc = "read", !.title = taskTitle, !.completed = completed]]
  /\ UNCHANGED <<exists, content, now, last, result, input, output>>

\* The call of c gets the answer of fs.pathExists and the content of the
\* file, and computes updatedContent: it returns false when the file is
\* missing or when updatedContent is the content it has read, and otherwise
\* starts to write.
ReadFile(c) ==
  LET call == calls.of[c]
      updated == UpdatedFile(content, call.title, call.completed, now)
  IN /\ call.pc = "read"
     /\ calls' = [calls EXCEPT
                    !.of[c] = IF exists /\ updated.ret
                              THEN [call EXCEPT !.pc = "write", !.seen = content, !.pending = updated.content]
                              ELSE [call EXCEPT !.pc = "done", !.seen = content, !.ret = FALSE],
                    !.log = Append(@, <<c, "read">>)]
     /\ UNCHANGED <<exists, content, now, last, result, input, output>>

\* The writing of the call of c with a second reading of the file: the change
\* is applied to the content the file has by then.
WriteFileRereads(c) ==
  LET call == calls.of[c]
  IN /\ call.pc = "write"
     /\ content' = UpdatedFile(content, call.title, call.completed, now).content
     /\ calls' = [calls EXCEPT !.of[c] = [call EXCEPT !.pc = "done", !.ret = TRUE],
                               !.log = Append(@, <<c, "write">>)]
     /\ UNCHANGED <<exists, now, last, result, input, output>>

\* fs.writeFile of the call of c ends: the file holds updatedContent, and
\* the call returns true.
WriteFile(c) ==
  LET call == calls.of[c]
  IN /\ call.pc = "write"
     /\ content' = call.pending
     /\ calls' = [calls EXCEPT !.of[c] = [call EXCEPT !.pc = "done", !.ret = TRUE],
                               !.log = Append(@, <<c, "write">>)]
     /\ UNCHANGED <<exists, now, last, result, input, output>>

NextRace ==
  \/ Tick
  \/ \E tasks \in RacePlans : ~exists /\ CreateTaskFile(tasks)
  \/ \E c \in Callers, taskTitle \in RaceTitles, completed \in BOOLEAN :
       exists /\ CallUpdate(c, taskTitle, completed)
  \/ \E c \in Callers : ReadFile(c)
  \/ \E c \in Callers : WriteFile(c)

SpecRace == Init /\ [][NextRace]_vars

\* The index of the checkbox of the line of a title in the state file s, 0
\* when there is no such line
LineOf(s, title) ==
  LET at == { j \in 1..Len(s) : CheckboxAt(s, j) /\ LineTitle(s, j) = title }
  IN IF at = {} THEN 0 ELSE Min(at)

\* The two calls have both read the file before either has written it, for
\* two different tasks; first is the caller that wrote first.
BothReadThenWrote(first, second) ==
  /\ first # second
  /\ Len(calls.log) = 4
  /\ calls.log[1][2] = "read" /\ calls.log[2][2] = "read"
  /\ calls.log[3] = <<first, "write">> /\ calls.log[4] = <<second, "write">>
  /\ calls.of[first].title # calls.of[second].title

\* C16: when two calls of updateTaskStatus for two different tasks have both
\* read the file before either has written it, the last write wins: the file
\* holds what the later writer wrote, and the line of the task of the earlier
\* writer has the checkbox it had when the two calls read the file, although
\* the call of the earlier writer returned true.
C16_LastWriteWins ==
  \A first, second \in Callers :
    BothReadThenWrote(first, second)
    => /\ content = calls.of[second].pending
       /\ calls.of[first].ret /\ calls.of[second].ret
       /\ LET j == LineOf(calls.of[first].seen, calls.of[first].title)
          IN j # 0 => content[j + 1] = calls.of[first].seen[j + 1]

\* Two calls have both read the file and then both written it, and the
\* earlier writer had checked the box of its task.
C16_Witness ==
  \E first, second \in Callers :
    /\ BothReadThenWrote(first, second)
    /\ LET j == LineOf(calls.of[first].seen, calls.of[first].title)
       IN j # 0 /\ calls.of[first].seen[j + 1] = " " /\ calls.of[first].pending[j + 1] = "x"

-----------------------------------------------------------------------------
(* The operations of the orchestrator (src/src/server.js) on a file system
   that may fail: initializeProject, completeTask, getProjectStatus and
   resumeProject, each with the call of the Store it makes. *)

\* What may strike the call of the Store an operation makes: nothing, a
\* failure of fs.readFile, a failure of fs.writeFile. fs.pathExists does not
\* fail: it answers false. A failed fs.writeFile is taken to leave the file
\* as it was.
Faults == {"none", "read", "write"}

\* The tokens of a text: its words, and each space and line break between
\* them, in order
Tokens(text) ==
  LET starts == { i \in 1..Len(text) :
                    \/ i = 1
                    \/ CharAt(text, i) \in {" ", "\n"}
                    \/ CharAt(text, i - 1) \in {" ", "\n"} }
      at == Ascending(starts)
  IN [k \in 1..Len(at) |->
        SubSeq(text, at[k], IF k = Len(at) THEN Len(text) ELSE at[k + 1] - 1)]

\* Group 1, trimmed, of /<label>:?\s*(.*?)(?:\n|$)/i on requirements, or the
\* default when there is no match; the label is given in lower case.
LineField(requirements, label, default) ==
  LET i == IndexOf(ToLowerCase(requirements), label, 1)
      afterColon == IF MatchAt(requirements, ":", i + Len(label))
                    THEN i + Len(label) + 1 ELSE i + Len(label)
      start == SkipChars(requirements, SpaceChars, afterColon)
  IN IF i = 0 THEN default
     ELSE Trim(SubSeq(requirements, start, LineEnd(requirements, start) - 1))

\* Group 1, trimmed, of /<label>:?\s*(.*?)(?:\n\n|\n#|\n\*\*|$)/is on
\* requirements, or "" when there is no match
BlockField(requirements, label) ==
  LET i == IndexOf(ToLowerCase(requirements), label, 1)
      afterColon == IF MatchAt(requirements, ":", i + Len(label))
                    THEN i + Len(label) + 1 ELSE i + Len(label)
      start == SkipChars(requirements, SpaceChars, afterColon)
  IN IF i = 0 THEN ""
     ELSE Trim(SubSeq(requirements, start, BlockEnd(requirements, start) - 1))

AnalyzeRequirements(requirements) ==
  [project_name |-> LineField(requirements, "project name", "New Project"),
   project_description |-> BlockField(requirements, "project description"),
   environment_setup |-> BlockField(requirements, "environment setup"),
   tasks |-> GenerateTasks(requirements)]

\* The tasks of the analyzer as the Store takes them: texts as tokens
StoreTasks(tasks) ==
  [k \in 1..Len(tasks) |->
     [title |-> Tokens(tasks[k].title), priority |-> tasks[k].priority,
      description |-> Tokens(tasks[k].description), subtasks |-> <<>>]]

\* createTaskFile on a file system with a fault: whether it threw, and the
\* file it leaves. Nothing in it catches the failure of fs.writeFile.
CreateTaskFileOutcome(fileExists, s, template, fault) ==
  IF fault = "write"
  THEN [threw |-> TRUE, exists |-> fileExists, content |-> s]
  ELSE [threw |-> FALSE, exists |-> TRUE, content |-> template]

\* updateTaskStatus without its try and catch
UpdateTaskStatusUncaught(fileExists, s, taskTitle, completed, t, fault) ==
  LET updated == UpdatedFile(s, taskTitle, completed, t)
  IN IF ~fileExists THEN [threw |-> FALSE, ret |-> FALSE, content |-> s]
     ELSE IF fault = "read" \/ (fault = "write" /\ updated.ret)
     THEN [threw |-> TRUE, ret |-> FALSE, content |-> s]
     ELSE [threw |-> FALSE, ret |-> updated.ret, content |-> updated.content]

\* updateTaskStatus on a file system with a fault: whether it threw, what it
\* returned, and the content it leaves. The failure of fs.readFile or of
\* fs.writeFile is caught, and false returned.
UpdateTaskStatusOutcome(fileExists, s, taskTitle, completed, t, fault) ==
  LET updated == UpdatedFile(s, taskTitle, completed, t)
  IN IF ~fileExists THEN [threw |-> FALSE, ret |-> FALSE, content |-> s]
     ELSE IF fault = "read" \/ (fault = "write" /\ updated.ret)
     THEN [threw |-> FALSE, ret |-> FALSE, content |-> s]
     ELSE [threw |-> FALSE, ret |-> updated.ret, content |-> updated.content]

\* getCurrentStatus on a file system with a fault: the failure of
\* fs.readFile is caught, and an error record returned.
GetCurrentStatusOutcome(fileExists, s, fault) ==
  IF fileExists /\ fault = "read"
  THEN [threw |-> FALSE, value |-> [error |-> "Error getting project status: EIO"]]
  ELSE [threw |-> FALSE, value |-> GetCurrentStatus(fileExists, s)]

\* initializeProject without its try and catch
InitializeProjectUncaught(projectInfo, created) ==
  IF created.threw THEN [threw |-> TRUE, value |-> [message |-> "EIO"]]
  ELSE [threw |-> FALSE,
        value |-> [success |-> TRUE, message |-> "Project initialized with Task-Master",
                   project_info |-> projectInfo, task_file_path |-> "TASK.mdc"]]

\* What initializeProject returns after createTaskFile
InitializeProjectResult(projectInfo, created) ==
  IF created.threw
  THEN [threw |-> FALSE, value |-> [success |-> FALSE, message |-> "Failed to initialize project: EIO"]]
  ELSE [threw |-> FALSE,
        value |-> [success |-> TRUE, message |-> "Project initialized with Task-Master",
                   project_info |-> projectInfo, task_file_path |-> "TASK.mdc"]]

\* What completeTask returns after updateTaskStatus
CompleteTaskResult(updated) ==
  IF updated.threw
  THEN [threw |-> FALSE, value |-> [success |-> FALSE, message |-> "Error updating task: EIO"]]
  ELSE IF updated.ret
  THEN [threw |-> FALSE, value |-> [success |-> TRUE, message |-> "Task marked"]]
  ELSE [threw |-> FALSE, value |-> [success |-> FALSE, message |-> "Failed to update task"]]

\* What getProjectStatus returns after getCurrentStatus
GetProjectStatusResult(status) ==
  IF status.threw
  THEN [threw |-> FALSE, value |-> [success |-> FALSE, message |-> "Error getting project status: EIO"]]
  ELSE IF IsError(status.value)
  THEN [threw |-> FALSE, value |-> [success |-> FALSE, message |-> status.value.error]]
  ELSE [threw |-> FALSE, value |-> [success |-> TRUE, status |-> status.value]]

\* What resumeProject returns after getCurrentStatus
ResumeProjectResult(status) ==
  IF status.threw
  THEN [threw |-> FALSE, value |-> [success |-> FALSE, message |-> "Error resuming project: EIO"]]
  ELSE [threw |-> FALSE, value |-> Resumed(status.value)]

\* The requirement texts given to initializeProject
ServerRequirements ==
  {"Project Name: Demo\n\nTasks:\n- Build login\n- urgent: fix crash\n",
   "Tasks:\n- Add $1 trial\n- Build login",
   "Project Name: Demo\n# Goals",
   ""}

\* The titles given to completeTask
ServerTitles ==
  {Tokens("Build login"), Tokens("Add $1 trial"), Tokens("Deploy")}

\* What an operation of the orchestrator gave back to its caller
Returned(op, outcome) == [op |-> op, threw |-> outcome.threw, value |-> outcome.value]

\* The call of the Store an operation of the orchestrator made
StoreCall(op, fault) ==
  [op |-> op, fault |-> fault, threw |-> FALSE, ret |-> FALSE, existed |-> exists,
   before |-> content, title |-> <<>>, completed |-> FALSE, value |-> NoResult]

\* For each requirement text, what analyzeRequirements makes of it, and the
\* arguments createTaskFile is given from it, texts as tokens
Analyzed ==
  [requirements \in ServerRequirements |->
     LET projectInfo == AnalyzeRequirements(requirements)
     IN [projectInfo |-> projectInfo,
         projectName |-> Tokens(projectInfo.project_name),
         projectDescription |-> Tokens(projectInfo.project_description),
         tasks |-> StoreTasks(projectInfo.tasks),
         environmentSetup |-> Tokens(projectInfo.environment_setup)]]

\* initializeProject(projectRoot, requirements): the requirements are
\* analyzed, and createTaskFile is called with what the analysis gave.
InitializeProject(requirements, fault) ==
  \E updated \in {now, now + 1}, given \in {Analyzed[requirements]} :
    \E template \in {Template(given.projectName, given.projectDescription, given.tasks,
                              given.environmentSetup, NextSteps, <<>>, now, updated)} :
      LET created == CreateTaskFileOutcome(exists, content, template, fault)
      IN /\ updated <= MaxClock
         /\ exists' = created.exists
         /\ content' = created.content
         /\ now' = updated
         /\ last' = [StoreCall("create", fault) EXCEPT !.threw = created.threw]
         /\ result' = Returned("initialize", InitializeProjectResult(given.projectInfo, created))
         /\ UNCHANGED <<input, output, calls>>

\* completeTask(projectRoot, taskTitle, completed)
CompleteTask(taskTitle, completed, fault) ==
  LET updated == UpdateTaskStatusOutcome(exists, content, taskTitle, completed, now, fault)
  IN /\ content' = updated.content
     /\ last' = [StoreCall("update", fault) EXCEPT !.threw = updated.threw, !.ret = updated.ret,
                                                   !.title = taskTitle, !.completed = completed]
     /\ result' = Returned("complete", CompleteTaskResult(updated))
     /\ UNCHANGED <<exists, now, input, output, calls>>

\* getProjectStatus(projectRoot)
GetProjectStatus(fault) ==
  LET status == GetCurrentStatusOutcome(exists, content, fault)
  IN /\ last' = [StoreCall("status", fault) EXCEPT !.threw = status.threw, !.value = status.value]
     /\ result' = Returned("status", GetProjectStatusResult(status))
     /\ UNCHANGED <<exists, content, now, input, output, calls>>

\* resumeProject(projectRoot)
ResumeProjectCall(fault) ==
  LET status == GetCurrentStatusOutcome(exists, content, fault)
  IN /\ last' = [StoreCall("status", fault) EXCEPT !.threw = status.threw, !.value = status.value]
     /\ result' = Returned("resume", ResumeProjectResult(status))
     /\ UNCHANGED <<exists, content, now, input, output, calls>>

NextServer ==
  \/ Tick
  \/ \E requirements \in ServerRequirements, fault \in Faults : InitializeProject(requirements, fault)
  \/ \E taskTitle \in ServerTitles, completed \in BOOLEAN, fault \in Faults : CompleteTask(taskTitle, completed, fault)
  \/ \E fault \in Faults : GetProjectStatus(fault)
  \/ \E fault \in Faults : ResumeProjectCall(fault)

SpecServer == Init /\ [][NextServer]_vars

-----------------------------------------------------------------------------
(* Properties of the orchestrator and of the Store on a file system that may
   fail, under SpecServer *)

\* The call of the Store met a failure of the file system: with the file
\* there, its reading failed, or the writing it came to failed.
ReadFailed == last.existed /\ last.fault = "read"

StoreStepFailed ==
  \/ last.threw
  \/ last.op = "update" /\ ~last.ret
  \/ last.op = "status" /\ IsError(last.value)

\* C12: initializeProject, completeTask, getProjectStatus and resumeProject
\* never throw and always return an object whose success is a boolean,
\* whether the file is missing, its reading fails or its writing fails;
\* success is false exactly when the call of the Store they made threw,
\* returned false or returned an error record.
C12_OrchestratorAlwaysReturns ==
  result.op \in {"initialize", "complete", "status", "resume"}
  => /\ ~result.threw
     /\ result.value.success \in BOOLEAN
     /\ ~result.value.success <=> StoreStepFailed

\* initializeProject has returned success false after the write of the state
\* file failed in createTaskFile.
C12_Witness ==
  /\ result.op = "initialize" /\ last.op = "create" /\ last.fault = "write" /\ last.threw
  /\ ~result.threw /\ ~result.value.success

\* C14: a call of updateTaskStatus that returns true leaves the state file as
\* it was but for the marker of one checkbox line and the value of the Last
\* Updated line: the same number of lines, and every other line, the title of
\* the marked line too, identical.
C14_OnlyMarkerAndLastUpdated ==
  (last.op = "update" /\ last.ret)
  => /\ Len(content) = Len(last.before)
     /\ \E j \in 1..Len(last.before) :
          /\ CheckboxAt(last.before, j)
          /\ \A i \in 1..Len(content) :
               content[i] # last.before[i]
               => (i = j + 1 \/ (i > 1 /\ last.before[i - 1] = "Last Updated: "))

====
